---- MODULE Spec2Model ----
(***************************************************************************)
(* A model of file_finder.py: the byte cursor (getint, getstring,          *)
(* getbytes), the legacy manifest parser, the length-bucketed fast-find    *)
(* index, the four filename finders and MagicFilenameFinder.               *)
(*                                                                         *)
(* Conventions.  A Python str is a sequence of code points, a Python bytes *)
(* object a sequence of 0..255.  Python offsets are 0-based: data[i] of    *)
(* the source is data[i + 1] here.  An optional value (None) is a record   *)
(* [some |-> FALSE, v |-> << >>].  A call's outcome is a record whose      *)
(* field exc names the exception raised ("" when it returned).             *)
(***************************************************************************)
EXTENDS Integers, Sequences, FiniteSets, TLC

VARIABLES pc, path, files, probed, data, rows, selected, finder, deligate,
          offset, mbdb, mbdx, ff, exc, ret, cur

vars == <<pc, path, files, probed, data, rows, selected, finder, deligate,
          offset, mbdb, mbdx, ff, exc, ret, cur>>

\* ------------------------------------------------------------------ text
\* Code points of the characters the source names.
Slash == 47
Tilde == 126
Dash == 45

\* '~/Library/Messages'
NativeDbPath == <<126, 47, 76, 105, 98, 114, 97, 114, 121, 47, 77, 101, 115, 115, 97, 103, 101, 115>>
\* 'chat.db'
NativeChatDb == <<99, 104, 97, 116, 46, 100, 98>>
\* 'Library/SMS'
BackupDbPath == <<76, 105, 98, 114, 97, 114, 121, 47, 83, 77, 83>>
\* 'sms.db'
BackupChatDb == <<115, 109, 115, 46, 100, 98>>
\* 'Manifest.mbdb'
OldManifest == <<77, 97, 110, 105, 102, 101, 115, 116, 46, 109, 98, 100, 98>>
\* 'Manifest.db'
NewManifest == <<77, 97, 110, 105, 102, 101, 115, 116, 46, 100, 98>>
\* b'mbdb'
MbdbMagic == <<109, 98, 100, 98>>
\* '<nofileID>'
NoFileID == <<60, 110, 111, 102, 105, 108, 101, 73, 68, 62>>

None == [some |-> FALSE, v |-> << >>]
Some(t) == [some |-> TRUE, v |-> t]

Min(a, b) == IF a < b THEN a ELSE b

\* s[i:] of Python, i >= 0.
From(s, i) == SubSeq(s, i + 1, Len(s))

\* s[i:j] of Python, 0 <= i: the slice is clamped to the sequence, it never fails.
Slice(s, i, j) == SubSeq(s, i + 1, Min(j, Len(s)))

\* s.find(c, start): the least 0-based position >= start holding c, or -1.
Find(s, c, start) ==
    LET hits == {i \in start .. (Len(s) - 1) : s[i + 1] = c}
    IN  IF hits = {} THEN -1 ELSE CHOOSE i \in hits : \A j \in hits : i <= j

\* ------------------------------------------------------- os.path.expanduser
\* The environment: the home directory of the current user; no other user
\* is known to the password database.
Home == <<47, 104>>

RECURSIVE RStripSlash(_)
RStripSlash(s) ==
    IF Len(s) > 0 /\ s[Len(s)] = Slash THEN RStripSlash(SubSeq(s, 1, Len(s) - 1)) ELSE s

\* posixpath.expanduser: a leading '~' alone is replaced by the home
\* directory; '~name' of an unknown user is left as it is.
expanduser(p) ==
    IF Len(p) = 0 \/ p[1] # Tilde THEN p
    ELSE LET f == Find(p, Slash, 1)
             i == IF f < 0 THEN Len(p) ELSE f
         IN  IF i # 1 THEN p
             ELSE LET r == RStripSlash(Home) \o From(p, i)
                  IN  IF r = << >> THEN <<Slash>> ELSE r

\* --------------------------------------------------------------- UTF-8
IsCont(b) == b >= 128 /\ b <= 191

\* Number of continuation bytes a lead byte asks for; -1 for a byte that
\* cannot start a character.
Need(b) ==
    IF b < 128 THEN 0
    ELSE IF b >= 194 /\ b <= 223 THEN 1
    ELSE IF b >= 224 /\ b <= 239 THEN 2
    ELSE IF b >= 240 /\ b <= 244 THEN 3
    ELSE -1

\* The range of the byte following lead byte b (rejects overlong forms,
\* surrogates and code points above 0x10FFFF).
SecondOk(b, c) ==
    IF b = 224 THEN c >= 160 /\ c <= 191
    ELSE IF b = 237 THEN c >= 128 /\ c <= 159
    ELSE IF b = 240 THEN c >= 144 /\ c <= 191
    ELSE IF b = 244 THEN c >= 128 /\ c <= 143
    ELSE IsCont(c)

\* A character starts at position i (1-based) and is well formed.
GoodLead(bs, i) ==
    LET n == Need(bs[i])
    IN  /\ n >= 0
        /\ i + n <= Len(bs)
        /\ \A j \in 1 .. n : IF j = 1 THEN SecondOk(bs[i], bs[i + 1]) ELSE IsCont(bs[i + j])

\* A continuation byte at position i belongs to a character that starts
\* at most three bytes before it.
OwnedCont(bs, i) ==
    \E k \in 1 .. 3 :
        /\ i - k >= 1
        /\ Need(bs[i - k]) >= k
        /\ \A j \in 1 .. (k - 1) : IsCont(bs[i - j])

Utf8Valid(bs) ==
    \A i \in 1 .. Len(bs) :
        IF IsCont(bs[i]) THEN OwnedCont(bs, i) ELSE GoodLead(bs, i)

CodePoint(bs, i) ==
    LET b == bs[i]
        n == Need(b)
    IN  IF n = 0 THEN b
        ELSE IF n = 1 THEN (b - 192) * 64 + (bs[i + 1] - 128)
        ELSE IF n = 2 THEN (b - 224) * 4096 + (bs[i + 1] - 128) * 64 + (bs[i + 2] - 128)
        ELSE (b - 240) * 262144 + (bs[i + 1] - 128) * 4096
                 + (bs[i + 2] - 128) * 64 + (bs[i + 3] - 128)

\* bytes.decode('utf-8') of a valid byte string: one code point per lead byte.
Utf8Text(bs) ==
    LET IsLeadAt(i) == ~IsCont(bs[i])
        leads == SelectSeq([i \in 1 .. Len(bs) |-> i], IsLeadAt)
    IN  << >> \o [k \in 1 .. Len(leads) |-> CodePoint(bs, leads[k])]

\* str.encode() of one code point.
Utf8Char(c) ==
    IF c < 128 THEN <<c>>
    ELSE IF c < 2048 THEN <<192 + (c \div 64), 128 + (c % 64)>>
    ELSE IF c < 65536 THEN <<224 + (c \div 4096), 128 + ((c \div 64) % 64), 128 + (c % 64)>>
    ELSE <<240 + (c \div 262144), 128 + ((c \div 4096) % 64),
           128 + ((c \div 64) % 64), 128 + (c % 64)>>

RECURSIVE Utf8EncodeFrom(_, _)
Utf8EncodeFrom(t, i) ==
    IF i > Len(t) THEN << >> ELSE Utf8Char(t[i]) \o Utf8EncodeFrom(t, i + 1)

\* str.encode(): ASCII text is its own encoding.
Utf8Encode(t) ==
    IF \A i \in 1 .. Len(t) : t[i] < 128 THEN t ELSE Utf8EncodeFrom(t, 1)

\* ---------------------------------------------------------- byte cursor
\* The outcome of a cursor call: the value, the new offset, or the
\* exception the call raised.
Got(v, o) == [exc |-> "", value |-> v, offset |-> o]
Raised(e) == [exc |-> e, value |-> << >>, offset |-> -1]

RECURSIVE getint_loop(_, _, _, _)
getint_loop(d, o, intsize, value) ==
    IF intsize > 0
    THEN IF o >= Len(d) THEN Raised("IndexError")
         ELSE getint_loop(d, o + 1, intsize - 1, value * 256 + d[o + 1])
    ELSE [exc |-> "", value |-> value, offset |-> o]

getint(d, o, intsize) == getint_loop(d, o, intsize, 0)

\* A blank test that looks at the first byte only.
BlankTestFirstByte(d, o) ==
    IF o >= Len(d) THEN "raise"
    ELSE IF d[o + 1] # 255 THEN "no"
    ELSE IF o + 1 >= Len(d) THEN "raise" ELSE "yes"

\* The test of lines 41 and 49: data[offset] == 0xFF and data[offset+1] == 0xFF,
\* "raise" when an index is out of range ('and' does not read the second
\* byte unless the first is 0xFF).
BlankTest(d, o) ==
    IF o >= Len(d) THEN "raise"
    ELSE IF d[o + 1] # 255 THEN "no"
    ELSE IF o + 1 >= Len(d) THEN "raise"
    ELSE IF d[o + 2] = 255 THEN "yes" ELSE "no"

getbytes(d, o) ==
    LET t == BlankTest(d, o)
    IN  IF t = "raise" THEN Raised("IndexError")
        ELSE IF t = "yes" THEN Got(<< >>, o + 2)
        ELSE LET n == getint(d, o, 2)
             IN  IF n.exc # "" THEN n
                 ELSE Got(Slice(d, n.offset, n.offset + n.value), n.offset + n.value)

getstring(d, o) ==
    LET t == BlankTest(d, o)
    IN  IF t = "raise" THEN Raised("IndexError")
        ELSE IF t = "yes" THEN Got(<< >>, o + 2)
        ELSE LET n == getint(d, o, 2)
             IN  IF n.exc # "" THEN n
                 ELSE LET value == Slice(d, n.offset, n.offset + n.value)
                      IN  IF Utf8Valid(value)
                          THEN Got(Utf8Text(value), n.offset + n.value)
                          ELSE Raised("UnicodeDecodeError")

\* ------------------------------------------------------------ hashlib
HexChar(n) == IF n < 10 THEN 48 + n ELSE 87 + n

RECURSIVE WeightedSum(_, _, _)
WeightedSum(bs, j, i) ==
    IF j > Len(bs) THEN 0 ELSE (bs[j] * (j + i) + WeightedSum(bs, j + 1, i)) % 65536

\* hashlib.sha1(b).hexdigest(): a deterministic function of the bytes alone
\* whose value is 40 lowercase hexadecimal characters.  The digest function
\* itself is abstracted: nothing in the program depends on its values.
sha1_hexdigest(bs) ==
    [i \in 1 .. 40 |-> HexChar((WeightedSum(bs, 1, i) + 7 * Len(bs) + i * i) % 16)]

\* ---------------------------------------------------- Python dictionaries
\* An insertion-ordered dict as a sequence of <<key, value>> pairs with
\* distinct keys: assigning to a key that is present replaces its value in
\* place, a new key is appended.
DictKeys(m) == {m[i][1] : i \in 1 .. Len(m)}

DictPut(m, k, v) ==
    IF k \in DictKeys(m)
    THEN [i \in 1 .. Len(m) |-> IF m[i][1] = k THEN <<k, v>> ELSE m[i]]
    ELSE Append(m, <<k, v>>)

\* A dict whose order is never observed, as a function: d[k] = v.
FnPut(d, k, v) == [x \in (DOMAIN d) \cup {k} |-> IF x = k THEN v ELSE d[x]]

\* --------------------------------------------------- legacy manifest parser
\* The fields process_mbdb_file reads for one record, in order (lines 155-170).
Schedule ==
    << [name |-> "domain",     kind |-> "str",   size |-> 0],
       [name |-> "filename",   kind |-> "str",   size |-> 0],
       [name |-> "linktarget", kind |-> "bytes", size |-> 0],
       [name |-> "datahash",   kind |-> "bytes", size |-> 0],
       [name |-> "unknown1",   kind |-> "bytes", size |-> 0],
       [name |-> "mode",       kind |-> "int",   size |-> 2],
       [name |-> "unknown2",   kind |-> "int",   size |-> 4],
       [name |-> "unknown3",   kind |-> "int",   size |-> 4],
       [name |-> "userid",     kind |-> "int",   size |-> 4],
       [name |-> "groupid",    kind |-> "int",   size |-> 4],
       [name |-> "mtime",      kind |-> "int",   size |-> 4],
       [name |-> "atime",      kind |-> "int",   size |-> 4],
       [name |-> "ctime",      kind |-> "int",   size |-> 4],
       [name |-> "filelen",    kind |-> "int",   size |-> 8],
       [name |-> "flag",       kind |-> "int",   size |-> 1],
       [name |-> "numprops",   kind |-> "int",   size |-> 1] >>

ReadField(d, o, fld) ==
    IF fld.kind = "str" THEN getstring(d, o)
    ELSE IF fld.kind = "bytes" THEN getbytes(d, o)
    ELSE getint(d, o, fld.size)

\* The outcome of reading part of a record: the exception raised, or the
\* new offset and the fields read so far.
RECURSIVE ReadFields(_, _, _, _)
ReadFields(d, o, k, info) ==
    IF k > Len(Schedule) THEN [exc |-> "", offset |-> o, info |-> info]
    ELSE LET r == ReadField(d, o, Schedule[k])
         IN  IF r.exc # "" THEN [exc |-> r.exc, offset |-> o, info |-> info]
             ELSE ReadFields(d, r.offset, k + 1, (Schedule[k].name :> r.value) @@ info)

\* for ii in range(numprops): propname, propval; properties[propname] = propval
RECURSIVE ReadProps(_, _, _, _)
ReadProps(d, o, n, props) ==
    IF n = 0 THEN [exc |-> "", offset |-> o, info |-> props]
    ELSE LET pn == getstring(d, o)
         IN  IF pn.exc # "" THEN [exc |-> pn.exc, offset |-> o, info |-> props]
             ELSE LET pv == getbytes(d, pn.offset)
                  IN  IF pv.exc # "" THEN [exc |-> pv.exc, offset |-> o, info |-> props]
                      ELSE ReadProps(d, pv.offset, n - 1, FnPut(props, pn.value, pv.value))

\* A record whose start_offset is taken after its domain has been read.
ReadRecordLateStart(d, o) ==
    LET fixed == ReadFields(d, o, 1, [start_offset |-> getstring(d, o).offset])
    IN  IF fixed.exc # "" THEN fixed
        ELSE LET props == ReadProps(d, fixed.offset, fixed.info.numprops, << >>)
             IN  IF props.exc # "" THEN props
                 ELSE [exc |-> "", offset |-> props.offset,
                       info |-> ("properties" :> props.info) @@ fixed.info]

\* One iteration of the while loop of process_mbdb_file, up to line 175.
ReadRecord(d, o) ==
    LET fixed == ReadFields(d, o, 1, [start_offset |-> o])
    IN  IF fixed.exc # "" THEN fixed
        ELSE LET props == ReadProps(d, fixed.offset, fixed.info.numprops, << >>)
             IN  IF props.exc # "" THEN props
                 ELSE [exc |-> "", offset |-> props.offset,
                       info |-> ("properties" :> props.info) @@ fixed.info]

\* fullpath = domain + '-' + filename; hashlib.sha1(fullpath.encode()).hexdigest()
FileIdOf(domain, filename) == sha1_hexdigest(Utf8Encode(domain \o <<Dash>> \o filename))

\* load_manifest, lines 138-143: every record gets its fileID from mbdx.
Annotate(m, x) ==
    [i \in 1 .. Len(m) |->
        <<m[i][1],
          ("fileID" :> (IF m[i][1] \in DOMAIN x THEN x[m[i][1]] ELSE NoFileID)) @@ m[i][2]>>]

\* ------------------------------------------------------- fast-find index
\* An index in which the first value stored for a path stays.
IndexPutFirstWins(index, fn, value) ==
    LET len_fn == Len(fn)
        bucket == IF len_fn \in DOMAIN index THEN index[len_fn] ELSE << >>
    IN  IF fn \in DOMAIN bucket THEN index
        ELSE FnPut(index, len_fn, FnPut(bucket, fn, value))

\* index[len_fn][fn] = value, creating the bucket when it is missing.
IndexPut(index, fn, value) ==
    LET len_fn == Len(fn)
        bucket == IF len_fn \in DOMAIN index THEN index[len_fn] ELSE << >>
    IN  FnPut(index, len_fn, FnPut(bucket, fn, value))

\* OldIPhoneBackupFilenameFinder.make_fast_find: over the records in the
\* dict's order, from record k on.
RECURSIVE old_make_fast_find(_, _, _)
old_make_fast_find(m, k, index) ==
    IF k > Len(m) THEN index
    ELSE old_make_fast_find(m, k + 1, IndexPut(index, m[k][2].filename, m[k][2].fileID))

\* entry[1][0:2] + '/' + entry[1]
NewValue(id) == Slice(id, 0, 2) \o <<Slash>> \o id

\* NewIPhoneBackupFilenameFinder.make_fast_find: over the rows
\* (relativePath, fileID) of the Files table, in the order of the query.
RECURSIVE new_make_fast_find(_, _, _)
new_make_fast_find(rs, k, index) ==
    IF k > Len(rs) THEN index
    ELSE IF ~rs[k][1].some THEN new_make_fast_find(rs, k + 1, index)
    ELSE new_make_fast_find(rs, k + 1, IndexPut(index, rs[k][1].v, NewValue(rs[k][2])))

\* The outcome of a filename() or chat_db() call.
Returned(t) == [exc |-> "", some |-> TRUE, v |-> t]
ReturnedNone == [exc |-> "", some |-> FALSE, v |-> << >>]
Threw(e) == [exc |-> e, some |-> FALSE, v |-> << >>]

\* The while loop of BaseIPhoneBackupFilenameFinder.filename from `index` on.
RECURSIVE base_filename_loop(_, _, _, _)
base_filename_loop(index_ff, backup_path, f, index) ==
    LET len_f == Len(f)
        l == len_f - index - 1
        fsub == From(f, index + 1)
        hit == /\ l \in DOMAIN index_ff
               /\ DOMAIN index_ff[l] # {}
               /\ fsub \in DOMAIN index_ff[l]
        next == Find(f, Slash, index + 1)
    IN  IF hit THEN Returned(expanduser(backup_path \o <<Slash>> \o index_ff[l][fsub]))
        ELSE IF next < 0 THEN ReturnedNone
        ELSE base_filename_loop(index_ff, backup_path, f, next)

\* A lookup that starts at index -1 whatever f starts with.
base_filename_whole(index_ff, backup_path, f) ==
    IF Len(f) = 0 THEN [exc |-> "IndexError", some |-> FALSE, v |-> << >>]
    ELSE base_filename_loop(index_ff, backup_path, f, -1)

\* BaseIPhoneBackupFilenameFinder.filename: f[0] of an empty str raises.
base_filename(index_ff, backup_path, f) ==
    IF Len(f) = 0 THEN Threw("IndexError")
    ELSE base_filename_loop(index_ff, backup_path, f, IF f[1] = Slash THEN 0 ELSE -1)

\* A prefix test that also rewrites f equal to the native root.
relocated_filename_ge(relocated_db_path, native_db_path, f) ==
    IF Len(f) >= Len(native_db_path) /\ Slice(f, 0, Len(native_db_path)) = native_db_path
    THEN [exc |-> "", some |-> TRUE,
          v |-> expanduser(relocated_db_path \o From(f, Len(native_db_path)))]
    ELSE [exc |-> "", some |-> TRUE, v |-> expanduser(f)]

\* RelocatedDBFilenameFinder.filename
relocated_filename(relocated_db_path, native_db_path, f) ==
    IF Len(f) > Len(native_db_path) /\ Slice(f, 0, Len(native_db_path)) = native_db_path
    THEN Returned(expanduser(relocated_db_path \o From(f, Len(native_db_path))))
    ELSE Returned(expanduser(f))

\* NativeDBFilenameFinder.filename
native_filename(f) == Returned(expanduser(f))

\* NativeDBFilenameFinder.chat_db and RelocatedDBFilenameFinder.chat_db
direct_chat_db(db_path, chat_db) == Returned(expanduser(db_path \o <<Slash>> \o chat_db))

\* ------------------------------------------------------------ file system
\* Path resolution treats a run of '/' as one '/'.
RECURSIVE Norm(_)
Norm(p) ==
    IF Len(p) < 2 THEN p
    ELSE IF p[1] = Slash /\ p[2] = Slash THEN Norm(Tail(p))
    ELSE <<p[1]>> \o Norm(Tail(p))

\* os.path.isfile: `fs` is the set of the regular files that exist.
isfile(fs, p) == Norm(p) \in fs

\* ------------------------------------------------- MagicFilenameFinder
\* A resolver that keeps the trailing '/'.
StripNothing(p) == p

\* Lines 207-208: one trailing '/' is removed from a str longer than one
\* character.
StripTrailing(p) ==
    IF p.some /\ Len(p.v) > 1 /\ p.v[Len(p.v)] = Slash
    THEN Some(SubSeq(p.v, 1, Len(p.v) - 1))
    ELSE p

Probe(fs, p, name) == isfile(fs, expanduser(p.v \o <<Slash>> \o name))

\* A chain that probes Manifest.db before Manifest.mbdb.
SelectNewFirst(fs, p) ==
    IF ~p.some \/ Len(p.v) = 0 \/ p.v = NativeDbPath THEN "NativeDBFilenameFinder"
    ELSE IF Probe(fs, p, NativeChatDb) THEN "RelocatedDBFilenameFinder"
    ELSE IF Probe(fs, p, NewManifest) THEN "NewIPhoneBackupFilenameFinder"
    ELSE IF Probe(fs, p, OldManifest) THEN "OldIPhoneBackupFilenameFinder"
    ELSE "Unknown"

\* The if/elif chain of lines 209-221: the class whose constructor runs, or
\* "Unknown" when the chain ends in the raise.
Select(fs, p) ==
    IF ~p.some \/ Len(p.v) = 0 \/ p.v = NativeDbPath THEN "NativeDBFilenameFinder"
    ELSE IF Probe(fs, p, NativeChatDb) THEN "RelocatedDBFilenameFinder"
    ELSE IF Probe(fs, p, OldManifest) THEN "OldIPhoneBackupFilenameFinder"
    ELSE IF Probe(fs, p, NewManifest) THEN "NewIPhoneBackupFilenameFinder"
    ELSE "Unknown"

\* The paths the chain hands to os.path.isfile, in order, up to and
\* including the first that is a file.
Probes(fs, p) ==
    LET q(name) == expanduser(p.v \o <<Slash>> \o name)
    IN  IF ~p.some \/ Len(p.v) = 0 \/ p.v = NativeDbPath THEN << >>
        ELSE IF Probe(fs, p, NativeChatDb) THEN <<q(NativeChatDb)>>
        ELSE IF Probe(fs, p, OldManifest) THEN <<q(NativeChatDb), q(OldManifest)>>
        ELSE <<q(NativeChatDb), q(OldManifest), q(NewManifest)>>

NoObject == [cls |-> "none"]
NoCall == [op |-> "none"]
Call(op, f, out) == [op |-> op, f |-> f, exc |-> out.exc, some |-> out.some, v |-> out.v]

\* MagicFilenameFinder(path) when the path names the native store.
ResolveNative ==
    /\ pc = "start"
    /\ probed' = Probes(files, StripTrailing(path))
    /\ Select(files, StripTrailing(path)) = "NativeDBFilenameFinder"
    /\ selected' = "NativeDBFilenameFinder"
    /\ deligate' = [cls |-> "NativeDBFilenameFinder",
                    db_path |-> NativeDbPath, chat_db |-> NativeChatDb]
    /\ pc' = "bound"
    /\ UNCHANGED <<path, files, data, rows, finder, offset, mbdb, mbdx, ff, exc, ret, cur>>

\* MagicFilenameFinder(path) when {path}/chat.db is a file.
ResolveRelocated ==
    /\ pc = "start"
    /\ probed' = Probes(files, StripTrailing(path))
    /\ Select(files, StripTrailing(path)) = "RelocatedDBFilenameFinder"
    /\ selected' = "RelocatedDBFilenameFinder"
    /\ deligate' = [cls |-> "RelocatedDBFilenameFinder",
                    relocated_db_path |-> StripTrailing(path).v,
                    native_db_path |-> NativeDbPath, chat_db |-> NativeChatDb]
    /\ pc' = "bound"
    /\ UNCHANGED <<path, files, data, rows, finder, offset, mbdb, mbdx, ff, exc, ret, cur>>

\* MagicFilenameFinder(path) when {path}/Manifest.mbdb is a file: the
\* constructor of OldIPhoneBackupFilenameFinder runs up to the while loop
\* of process_mbdb_file (lines 118-151).
ResolveOld ==
    /\ pc = "start"
    /\ probed' = Probes(files, StripTrailing(path))
    /\ Select(files, StripTrailing(path)) = "OldIPhoneBackupFilenameFinder"
    /\ selected' = "OldIPhoneBackupFilenameFinder"
    /\ finder' = [cls |-> "OldIPhoneBackupFilenameFinder",
                  backup_path |-> StripTrailing(path).v,
                  db_path |-> BackupDbPath, chat_db |-> BackupChatDb,
                  manifest |-> OldManifest]
    /\ mbdx' = << >>
    /\ mbdb' = << >>
    /\ IF Slice(data, 0, 4) # MbdbMagic
       THEN /\ pc' = "failed"
            /\ exc' = "Exception: This does not look like an MBDB file"
            /\ UNCHANGED offset
       ELSE /\ pc' = "parse"
            /\ offset' = 4 + 2
            /\ UNCHANGED exc
    /\ UNCHANGED <<path, files, data, rows, deligate, ff, ret, cur>>

\* An iteration that files the computed ID under the offset the record
\* ends at.
ParseRecordEndKey ==
    /\ pc = "parse"
    /\ offset < Len(data)
    /\ LET r == ReadRecord(data, offset)
       IN  IF r.exc # ""
           THEN /\ pc' = "failed"
                /\ exc' = r.exc
                /\ UNCHANGED <<offset, mbdb, mbdx>>
           ELSE /\ offset' = r.offset
                /\ mbdb' = DictPut(mbdb, r.info.start_offset, r.info)
                /\ mbdx' = FnPut(mbdx, r.offset, FileIdOf(r.info.domain, r.info.filename))
                /\ UNCHANGED <<pc, exc>>
    /\ UNCHANGED <<path, files, probed, data, rows, selected, finder, deligate, ff, ret, cur>>

\* One iteration of the while loop of process_mbdb_file (lines 152-179).
ParseRecord ==
    /\ pc = "parse"
    /\ offset < Len(data)
    /\ LET r == ReadRecord(data, offset)
       IN  IF r.exc # ""
           THEN /\ pc' = "failed"
                /\ exc' = r.exc
                /\ UNCHANGED <<offset, mbdb, mbdx>>
           ELSE /\ offset' = r.offset
                /\ mbdb' = DictPut(mbdb, r.info.start_offset, r.info)
                /\ mbdx' = FnPut(mbdx, r.info.start_offset,
                                 FileIdOf(r.info.domain, r.info.filename))
                /\ UNCHANGED <<pc, exc>>
    /\ UNCHANGED <<path, files, probed, data, rows, selected, finder, deligate, ff, ret, cur>>

\* The loop ends: load_manifest annotates the records, make_fast_find
\* builds the index, and the finder is bound (lines 180, 138-144, 123, 216).
ParseEnd ==
    /\ pc = "parse"
    /\ offset >= Len(data)
    /\ LET annotated == Annotate(mbdb, mbdx)
       IN  /\ mbdb' = annotated
           /\ ff' = old_make_fast_find(annotated, 1, << >>)
    /\ deligate' = finder
    /\ pc' = "bound"
    /\ UNCHANGED <<path, files, probed, data, rows, selected, finder, offset, mbdx, exc, ret, cur>>

\* MagicFilenameFinder(path) when {path}/Manifest.db is a file.
ResolveNew ==
    /\ pc = "start"
    /\ probed' = Probes(files, StripTrailing(path))
    /\ Select(files, StripTrailing(path)) = "NewIPhoneBackupFilenameFinder"
    /\ selected' = "NewIPhoneBackupFilenameFinder"
    /\ ff' = new_make_fast_find(rows, 1, << >>)
    /\ deligate' = [cls |-> "NewIPhoneBackupFilenameFinder",
                    backup_path |-> StripTrailing(path).v,
                    db_path |-> BackupDbPath, chat_db |-> BackupChatDb,
                    manifest |-> NewManifest]
    /\ pc' = "bound"
    /\ UNCHANGED <<path, files, data, rows, finder, offset, mbdb, mbdx, exc, ret, cur>>

\* MagicFilenameFinder(path) when nothing matches: line 221.
ResolveUnknown ==
    /\ pc = "start"
    /\ probed' = Probes(files, StripTrailing(path))
    /\ Select(files, StripTrailing(path)) = "Unknown"
    /\ selected' = "Unknown"
    /\ pc' = "failed"
    /\ exc' = "Exception: Unknown repository"
    /\ UNCHANGED <<path, files, data, rows, finder, deligate, offset, mbdb, mbdx, ff, ret, cur>>

IsBackup(d) ==
    d.cls \in {"OldIPhoneBackupFilenameFinder", "NewIPhoneBackupFilenameFinder"}

\* self._deligate.filename(f)
delegate_filename(d, index_ff, f) ==
    IF d.cls = "NativeDBFilenameFinder" THEN native_filename(f)
    ELSE IF d.cls = "RelocatedDBFilenameFinder"
    THEN relocated_filename(d.relocated_db_path, d.native_db_path, f)
    ELSE base_filename(index_ff, d.backup_path, f)

\* self._deligate.chat_db()
delegate_chat_db(d, index_ff) ==
    IF d.cls = "NativeDBFilenameFinder" THEN direct_chat_db(d.db_path, d.chat_db)
    ELSE IF d.cls = "RelocatedDBFilenameFinder"
    THEN direct_chat_db(d.relocated_db_path, d.chat_db)
    ELSE base_filename(index_ff, d.backup_path, d.db_path \o <<Slash>> \o d.chat_db)

\* MagicFilenameFinder.filename(f) on the bound finder.
Filename(f) ==
    /\ pc = "bound"
    /\ ret = NoCall
    /\ ret' = Call("filename", f, delegate_filename(deligate, ff, f))
    /\ UNCHANGED <<pc, path, files, probed, data, rows, selected, finder, deligate,
                   offset, mbdb, mbdx, ff, exc, cur>>

\* MagicFilenameFinder.chat_db() on the bound finder.
ChatDb ==
    /\ pc = "bound"
    /\ ret = NoCall
    /\ ret' = Call("chat_db", << >>, delegate_chat_db(deligate, ff))
    /\ UNCHANGED <<pc, path, files, probed, data, rows, selected, finder, deligate,
                   offset, mbdb, mbdx, ff, exc, cur>>

\* The caller takes the outcome of the call; the finder is ready for the
\* next call.
Return ==
    /\ pc = "bound"
    /\ ret # NoCall
    /\ ret' = NoCall
    /\ UNCHANGED <<pc, path, files, probed, data, rows, selected, finder, deligate,
                   offset, mbdb, mbdx, ff, exc, cur>>

\* ------------------------------------------------------------ the inputs
MaxSlashes == 2
MaxPathLen == 3
MaxRecs == 2
MaxRows == 2
MaxCutRecs == 2

SeqsUpTo(S, n) == UNION {[1 .. k -> S] : k \in 0 .. n}

Slashes(k) == [i \in 1 .. k |-> Slash]

\* Root paths given to MagicFilenameFinder: None, and '', the native root,
\* 'b' and '~/b', each followed by up to MaxSlashes '/'.
RootPaths ==
    {None} \cup {Some(r \o Slashes(k)) :
                    r \in {<< >>, NativeDbPath, <<98>>, <<126, 47, 98>>}, k \in 0 .. MaxSlashes}

BackupRoots == {Some(<<98>>), Some(<<126, 47, 98>>)}

\* The directory a root path names.
DirOf(p) == IF p.some THEN Norm(expanduser(RStripSlash(p.v))) ELSE << >>

FileIn(p, name) == Norm(DirOf(p) \o <<Slash>> \o name)

\* Paths stored in a manifest: '', 'a', '/a', 'a/a'.
KeyNames == {<< >>, <<97>>, <<47, 97>>, <<97, 47, 97>>}

\* Arguments of filename(): every text over {'a', '/'} up to MaxPathLen, and
\* texts around the native root.
FilenameArgs ==
    SeqsUpTo({97, Slash}, MaxPathLen)
        \cup {<<Tilde>>, <<Tilde, 47, 97>>, SubSeq(NativeDbPath, 1, Len(NativeDbPath) - 1),
              NativeDbPath, NativeDbPath \o <<47>>, NativeDbPath \o <<47, 97>>,
              NativeDbPath \o <<97>>}

\* The legacy manifest layout, written: big-endian integers, 2-byte length
\* prefixes, 0xFFFF for a blank field.
RECURSIVE EncInt(_, _)
EncInt(n, size) == IF size = 0 THEN << >> ELSE EncInt(n \div 256, size - 1) \o <<n % 256>>

EncBytes(bs, blank) ==
    IF bs = << >> /\ blank THEN <<255, 255>> ELSE EncInt(Len(bs), 2) \o bs

RECURSIVE EncProps(_)
EncProps(ps) ==
    IF ps = << >> THEN << >>
    ELSE EncBytes(Utf8Encode(Head(ps)[1]), FALSE) \o EncBytes(Head(ps)[2], FALSE)
             \o EncProps(Tail(ps))

EncRecord(r) ==
    EncBytes(Utf8Encode(r.domain), r.blank) \o EncBytes(Utf8Encode(r.filename), r.blank)
        \o EncBytes(<< >>, r.blank) \o EncBytes(<< >>, r.blank) \o EncBytes(<< >>, r.blank)
        \o EncInt(33188, 2) \o EncInt(0, 4) \o EncInt(0, 4) \o EncInt(501, 4)
        \o EncInt(501, 4) \o EncInt(1488499200, 4) \o EncInt(1488499200, 4)
        \o EncInt(1488499200, 4) \o EncInt(4096, 8) \o EncInt(4, 1)
        \o EncInt(Len(r.props), 1) \o EncProps(r.props)

RECURSIVE EncRecords(_)
EncRecords(rs) == IF rs = << >> THEN << >> ELSE EncRecord(Head(rs)) \o EncRecords(Tail(rs))

EncManifest(rs) == MbdbMagic \o <<5, 0>> \o EncRecords(rs)

\* Well-formed manifests: up to MaxRecs records, domains 'H' and 'M'.
WholeRecords ==
    [domain : {<<72>>, <<77>>}, filename : KeyNames, props : {<< >>}, blank : {FALSE}]

WholeManifests == {EncManifest(rs) : rs \in SeqsUpTo(WholeRecords, MaxRecs)}

\* Manifests cut short at every length: records with blank fields, and
\* records that end in a property.
CutRecords ==
    { [domain |-> <<72>>, filename |-> <<97>>, props |-> << >>, blank |-> TRUE],
      [domain |-> <<72>>, filename |-> <<97, 47, 97>>,
       props |-> << <<(<<112>>), (<<1, 2>>)>> >>, blank |-> FALSE] }

CutManifests ==
    UNION { {SubSeq(EncManifest(rs), 1, k) : k \in 0 .. Len(EncManifest(rs))} :
              rs \in SeqsUpTo(CutRecords, MaxCutRecs) \ {<< >>} }

\* Files that are no manifest, and a manifest whose filename is not UTF-8.
OddManifests ==
    { <<109, 98, 100, 120, 5, 0>>,
      MbdbMagic \o <<5, 0>> \o EncBytes(<<72>>, FALSE) \o EncBytes(<<255>>, FALSE) }

\* Rows of the Files table: a path or NULL, and a fileID ('ab1' or 'c').
RowSet == ({None} \cup {Some(k) : k \in KeyNames}) \X {<<97, 98, 49>>, <<99>>}

NoFiles == {}

InitIdle ==
    /\ pc = "start"
    /\ selected = ""
    /\ finder = NoObject
    /\ deligate = NoObject
    /\ offset = 0
    /\ mbdb = << >>
    /\ mbdx = << >>
    /\ ff = << >>
    /\ exc = ""
    /\ ret = NoCall
    /\ cur = NoCall
    /\ probed = << >>

\* Every root path against every combination of the three probed files.
InitResolver ==
    /\ path \in RootPaths
    /\ \E present \in SUBSET {NativeChatDb, OldManifest, NewManifest} :
          files = {FileIn(path, n) : n \in present}
    /\ data \in {EncManifest(<< >>), <<109, 98, 100, 120, 5, 0>>}
    /\ rows = << >>

\* A legacy backup.
InitOld ==
    /\ path \in BackupRoots
    /\ files = {FileIn(path, OldManifest)}
    /\ data \in WholeManifests \cup CutManifests \cup OddManifests
    /\ rows = << >>

\* A modern backup.
InitNew ==
    /\ path \in BackupRoots
    /\ files = {FileIn(path, NewManifest)}
    /\ data = << >>
    /\ rows \in SeqsUpTo(RowSet, MaxRows)

Init == InitIdle /\ (InitResolver \/ InitOld \/ InitNew)

Next ==
    \/ ResolveNative
    \/ ResolveRelocated
    \/ ResolveOld
    \/ ParseRecord
    \/ ParseEnd
    \/ ResolveNew
    \/ ResolveUnknown
    \/ \E f \in FilenameArgs : Filename(f)
    \/ ChatDb
    \/ Return

Spec == Init /\ [][Next]_vars

\* ----------------------------------------------- the byte cursor alone
MaxPayload == 2
MaxPrefix == 2
MaxRaw == 3

\* Payload bytes: 'A', the two bytes of U+00E9, and 0xFF (not UTF-8).
PayloadBytes == {65, 195, 169, 255}

\* A byte string held in the state: one whose bytes are all equal is held
\* as that byte and its length, any other byte for byte.
Pack(bs) ==
    IF Len(bs) > 0 /\ \A i \in 1 .. Len(bs) : bs[i] = bs[1]
    THEN [n |-> Len(bs), fill |-> bs[1], items |-> << >>]
    ELSE [n |-> Len(bs), fill |-> 0, items |-> bs]

Unpack(p) ==
    IF p.items # << >> \/ p.n = 0 THEN p.items ELSE << >> \o [i \in 1 .. p.n |-> p.fill]

\* Payloads whose length needs both bytes of the prefix, up to the largest
\* length the prefix can hold.
LongPayloads == {[n |-> n, fill |-> 97, items |-> << >>] : n \in {256, 65534, 65535}}

\* A buffer: `pre` bytes, a body at offset pre, the bytes `post`.  The body
\* is the encoding of the value v (enc), or the bytes v as they are.
CursorInputs ==
    [op : {"input"}, pre : 0 .. MaxPrefix, post : {<< >>, <<9>>}, enc : {TRUE},
     v : {Pack(v) : v \in SeqsUpTo(PayloadBytes, MaxPayload)} \cup LongPayloads]
    \cup
    [op : {"input"}, pre : 0 .. MaxPrefix, post : {<< >>}, enc : {FALSE},
     v : {Pack(v) : v \in SeqsUpTo({0, 1, 255}, MaxRaw)}]

CursorData(c) ==
    [i \in 1 .. c.pre |-> 7]
        \o (IF c.enc THEN EncBytes(Unpack(c.v), FALSE) ELSE Unpack(c.v)) \o c.post

InitCursor ==
    /\ pc = "cursor"
    /\ path = None
    /\ files = NoFiles
    /\ probed = << >>
    /\ data = << >>
    /\ rows = << >>
    /\ selected = ""
    /\ finder = NoObject
    /\ deligate = NoObject
    /\ offset = 0
    /\ mbdb = << >>
    /\ mbdx = << >>
    /\ ff = << >>
    /\ exc = ""
    /\ ret = NoCall
    /\ cur \in CursorInputs

CursorCall(op, out) ==
    /\ pc = "cursor"
    /\ cur.op = "input"
    /\ cur' = [op |-> op, pre |-> cur.pre, post |-> cur.post, enc |-> cur.enc, v |-> cur.v,
               out |-> [exc |-> out.exc, value |-> Pack(out.value), offset |-> out.offset]]
    /\ UNCHANGED <<pc, path, files, probed, data, rows, selected, finder, deligate,
                   offset, mbdb, mbdx, ff, exc, ret>>

\* getstring(data, offset)
CallGetstring == CursorCall("getstring", getstring(CursorData(cur), cur.pre))

\* getbytes(data, offset)
CallGetbytes == CursorCall("getbytes", getbytes(CursorData(cur), cur.pre))

NextCursor == CallGetstring \/ CallGetbytes

SpecCursor == InitCursor /\ [][NextCursor]_vars

\* ================================================================ claims
IsPrefix(a, b) == Len(a) <= Len(b) /\ SubSeq(b, 1, Len(a)) = a

\* ------------------------------------------------------------------- C7
CursorDone == cur.op \in {"getstring", "getbytes"}

\* The bytes a cursor call returned: getstring returns text, whose bytes
\* are its UTF-8 encoding.
ReturnedBytes ==
    IF cur.op = "getstring" THEN Utf8Encode(Unpack(cur.out.value)) ELSE Unpack(cur.out.value)

BlankAtOffset ==
    LET d == CursorData(cur)
    IN  cur.pre + 2 <= Len(d) /\ d[cur.pre + 1] = 255 /\ d[cur.pre + 2] = 255

BlankDecodesEmpty ==
    BlankAtOffset =>
        cur.out.exc = "" /\ cur.out.value.n = 0 /\ cur.out.offset = cur.pre + 2

\* C7 as stated: for every byte value v of length 0 <= n <= 65535 (for
\* getstring, the UTF-8 bytes of a text) and every offset, getstring and
\* getbytes of the encoding of v (the 2-byte big-endian n, then v) return v
\* and advance the offset by exactly 2 + n; and two 0xFF bytes at the offset
\* decode to empty and advance by exactly 2.
C7_RoundTripAsStated ==
    CursorDone =>
        /\ (cur.enc /\ cur.v.n <= 65535
               /\ (cur.op = "getstring" => Utf8Valid(Unpack(cur.v)))) =>
              /\ cur.out.exc = ""
              /\ ReturnedBytes = Unpack(cur.v)
              /\ cur.out.offset = cur.pre + 2 + cur.v.n
        /\ BlankDecodesEmpty

\* C7 amended: the round trip holds for lengths 0 <= n <= 65534 (the prefix
\* of n = 65535 is the blank mark); getbytes returns v for every v, getstring
\* returns the text whose UTF-8 encoding is v when v is valid UTF-8 and
\* raises UnicodeDecodeError otherwise; both advance by exactly 2 + n; two
\* 0xFF bytes at the offset decode to empty and advance by exactly 2.
C7_RoundTrip ==
    CursorDone =>
        /\ (cur.enc /\ cur.v.n <= 65534) =>
              IF cur.op = "getstring" /\ ~Utf8Valid(Unpack(cur.v))
              THEN cur.out.exc = "UnicodeDecodeError"
              ELSE /\ cur.out.exc = ""
                   /\ ReturnedBytes = Unpack(cur.v)
                   /\ cur.out.offset = cur.pre + 2 + cur.v.n
        /\ BlankDecodesEmpty

\* A value of the largest length that round-trips has been decoded at a
\* non-zero offset.
C7_Witness ==
    /\ cur.op = "getstring"
    /\ cur.enc
    /\ cur.v.n = 65534
    /\ cur.pre > 0
    /\ cur.out.exc = ""
    /\ cur.out.value = cur.v
    /\ cur.out.offset = cur.pre + 65536

\* ------------------------------------------------------------------- C4
RelocatedCall ==
    /\ pc = "bound"
    /\ deligate.cls = "RelocatedDBFilenameFinder"
    /\ ret.op = "filename"

\* C4 as stated: for every f that begins with native_db_path (f equal to it
\* included) the result is relocated_root followed by the rest of f; for
\* every other f the result is f up to home-directory expansion.
C4_RewriteAsStated ==
    RelocatedCall =>
        /\ ret.exc = ""
        /\ ret.some
        /\ ret.v = IF IsPrefix(deligate.native_db_path, ret.f)
                   THEN deligate.relocated_db_path
                            \o SubSeq(ret.f, Len(deligate.native_db_path) + 1, Len(ret.f))
                   ELSE expanduser(ret.f)

\* C4 amended: for every f strictly longer than native_db_path that begins
\* with it, the result is the home-directory expansion of relocated_root
\* followed by the rest of f; for every other f, f equal to native_db_path
\* included, the result is the home-directory expansion of f.
C4_Rewrite ==
    RelocatedCall =>
        /\ ret.exc = ""
        /\ ret.some
        /\ ret.v = IF IsPrefix(deligate.native_db_path, ret.f)
                         /\ ret.f # deligate.native_db_path
                   THEN expanduser(deligate.relocated_db_path
                            \o SubSeq(ret.f, Len(deligate.native_db_path) + 1, Len(ret.f)))
                   ELSE expanduser(ret.f)

\* filename('~/Library/Messages/a') has been rewritten under a relocated
\* root that starts with '~'.
C4_Witness ==
    /\ RelocatedCall
    /\ ret.f = NativeDbPath \o <<47, 97>>
    /\ deligate.relocated_db_path = <<126, 47, 98>>
    /\ ret.v = Home \o <<47, 98, 47, 97>>

\* ------------------------------------------------------------------- C1
AllKeys == UNION {DOMAIN ff[l] : l \in DOMAIN ff}

\* The 0-based positions at which a candidate suffix of f starts: 0 when f
\* does not start with '/', and the position after every '/' of f.
CandidateStarts(f) ==
    {i \in 0 .. Len(f) : (i = 0 /\ f[1] # Slash) \/ (i >= 1 /\ f[i] = Slash)}

SuffixAt(f, i) == SubSeq(f, i + 1, Len(f))

\* The start of the longest candidate suffix of f that is a key; -1 if none.
LongestHit(f) ==
    LET hits == {i \in CandidateStarts(f) : SuffixAt(f, i) \in AllKeys}
    IN  IF hits = {} THEN -1 ELSE CHOOSE i \in hits : \A j \in hits : i <= j

StoredFor(s) == ff[Len(s)][s]

NonEmptyBackupCall == pc = "bound" /\ IsBackup(deligate) /\ ret.op = "filename" /\ ret.f # << >>

\* C1 as stated: for every non-empty f, filename(f) on a backup finder
\* returns backup_root + '/' + the value stored for the longest candidate
\* suffix of f that is a key of the index, and None exactly when no
\* candidate suffix is a key.
C1_LongestSuffixAsStated ==
    NonEmptyBackupCall =>
        /\ ret.exc = ""
        /\ ret.some = (LongestHit(ret.f) >= 0)
        /\ ret.some =>
              ret.v = deligate.backup_path \o <<Slash>>
                          \o StoredFor(SuffixAt(ret.f, LongestHit(ret.f)))

\* C1 amended: the path returned is the home-directory expansion of
\* backup_root + '/' + the stored value (a backup_root that starts with '~'
\* is expanded); the rest as stated.
C1_LongestSuffix ==
    NonEmptyBackupCall =>
        /\ ret.exc = ""
        /\ ret.some = (LongestHit(ret.f) >= 0)
        /\ ret.some =>
              ret.v = expanduser(deligate.backup_path \o <<Slash>>
                                     \o StoredFor(SuffixAt(ret.f, LongestHit(ret.f))))

\* filename('a/a') missed at full length and hit the key 'a', while '/a',
\* no candidate, is a key too; the backup root starts with '~'.
C1_Witness ==
    /\ NonEmptyBackupCall
    /\ ret.f = <<97, 47, 97>>
    /\ <<97, 47, 97>> \notin AllKeys
    /\ <<47, 97>> \in AllKeys
    /\ <<97>> \in AllKeys
    /\ ret.some
    /\ deligate.backup_path[1] = Tilde

\* ------------------------------------------------------------------- C2
Resolved == pc \in {"bound", "failed"}

\* The root the selection rules are applied to.
Root == StripTrailing(path)

IsNativeRoot == ~Root.some \/ Root.v = << >> \/ Root.v = NativeDbPath

Exists(name) == FileIn(path, name) \in files

\* The variant the precedence rules name.
Expected ==
    IF IsNativeRoot THEN "NativeDBFilenameFinder"
    ELSE IF Exists(NativeChatDb) THEN "RelocatedDBFilenameFinder"
    ELSE IF Exists(OldManifest) THEN "OldIPhoneBackupFilenameFinder"
    ELSE IF Exists(NewManifest) THEN "NewIPhoneBackupFilenameFinder"
    ELSE "Unknown"

\* Number of files probed when the chain stops at the first match.
ExpectedProbes ==
    IF IsNativeRoot THEN 0
    ELSE IF Exists(NativeChatDb) THEN 1
    ELSE IF Exists(OldManifest) THEN 2
    ELSE 3

BoundRoot ==
    IF deligate.cls = "RelocatedDBFilenameFinder" THEN deligate.relocated_db_path
    ELSE deligate.backup_path

UnknownRepository ==
    pc = "failed" /\ exc = "Exception: Unknown repository" /\ deligate = NoObject

BoundAs(cls) ==
    /\ pc = "bound"
    /\ deligate.cls = cls
    /\ cls # "NativeDBFilenameFinder" => BoundRoot = Root.v

ManifestLoadFailed ==
    /\ pc = "failed"
    /\ deligate = NoObject
    /\ exc \in {"Exception: This does not look like an MBDB file",
                "IndexError", "UnicodeDecodeError"}

EndsWithSlash(t) == Len(t) > 0 /\ t[Len(t)] = Slash

HasBoundRoot == pc = "bound" /\ deligate.cls # "NativeDBFilenameFinder"

\* C6 as stated: a non-empty root path given with one or more trailing '/'
\* resolves as the path without them does: the same variant, bound to the same
\* root; and the root bound for it never ends with '/'.
C6_StripAsStated ==
    /\ (pc # "start" /\ path.some /\ EndsWithSlash(path.v) /\ RStripSlash(path.v) # << >>) =>
          /\ selected = Select(files, Some(RStripSlash(path.v)))
          /\ HasBoundRoot => BoundRoot = RStripSlash(path.v)
    /\ (HasBoundRoot /\ RStripSlash(path.v) # << >>) => ~EndsWithSlash(BoundRoot)

\* C6 amended: the resolver strips exactly one trailing '/', and only from
\* a path longer than one character: a non-empty p that does not end in
\* '/', given as p + '/', resolves as p does (same variant, bound to p);
\* the bound root ends with '/' only when the path was given as '/' or
\* with two or more trailing '/'.
C6_Strip ==
    LET p == SubSeq(path.v, 1, Len(path.v) - 1)
    IN  /\ (pc # "start" /\ path.some /\ EndsWithSlash(path.v)
               /\ p # << >> /\ ~EndsWithSlash(p)) =>
              /\ selected = Select(files, Some(p))
              /\ HasBoundRoot => BoundRoot = p
        /\ (HasBoundRoot /\ EndsWithSlash(BoundRoot)) =>
              \/ path.v = <<Slash>>
              \/ (Len(path.v) >= 2 /\ path.v[Len(path.v) - 1] = Slash)

\* The root 'b/' was resolved and a relocated store bound to 'b'.
C6_Witness ==
    /\ path = Some(<<98, 47>>)
    /\ pc = "bound"
    /\ deligate.cls = "RelocatedDBFilenameFinder"
    /\ deligate.relocated_db_path = <<98>>

\* ------------------------------------------------------------------- C8
IsOld == deligate.cls = "OldIPhoneBackupFilenameFinder"
IsNew == deligate.cls = "NewIPhoneBackupFilenameFinder"

\* The record with the highest start_offset among those whose filename is p.
LastRecordOf(p) ==
    CHOOSE i \in 1 .. Len(mbdb) :
        /\ mbdb[i][2].filename = p
        /\ \A j \in 1 .. Len(mbdb) : mbdb[j][2].filename = p => mbdb[j][1] <= mbdb[i][1]

\* The last row whose path is p.
LastRowOf(p) ==
    CHOOSE i \in 1 .. Len(rows) :
        /\ rows[i][1] = Some(p)
        /\ \A j \in 1 .. Len(rows) : rows[j][1] = Some(p) => j <= i

FirstTwo(id) == IF Len(id) <= 2 THEN id ELSE <<id[1], id[2]>>

\* C8: in the index a backup finder is bound with, every key of the bucket
\* for length L has L characters; the keys are exactly the non-null input
\* paths, each in the bucket of its length; a path maps to the value of the
\* last input pair that has it: the fileID of the record with the highest
\* start_offset (legacy), the first two characters of the ID + '/' + the ID
\* of the last row (modern); null paths add nothing.
C8_IndexBuilt ==
    (pc = "bound" /\ IsBackup(deligate)) =>
        /\ \A l \in DOMAIN ff : \A k \in DOMAIN ff[l] : Len(k) = l
        /\ IsOld =>
              /\ AllKeys = {mbdb[i][2].filename : i \in 1 .. Len(mbdb)}
              /\ \A k \in AllKeys : ff[Len(k)][k] = mbdb[LastRecordOf(k)][2].fileID
        /\ IsNew =>
              /\ AllKeys = {rows[i][1].v : i \in {j \in 1 .. Len(rows) : rows[j][1].some}}
              /\ \A k \in AllKeys :
                    ff[Len(k)][k] = FirstTwo(rows[LastRowOf(k)][2]) \o <<Slash>>
                                        \o rows[LastRowOf(k)][2]

\* A legacy index was built from two records with the same filename and
\* different fileIDs.
C8_Witness ==
    /\ pc = "bound"
    /\ IsOld
    /\ Len(mbdb) = 2
    /\ mbdb[1][2].filename = mbdb[2][2].filename
    /\ mbdb[1][2].fileID # mbdb[2][2].fileID
    /\ ff[Len(mbdb[2][2].filename)][mbdb[2][2].filename] = mbdb[2][2].fileID

\* ------------------------------------------------------------------- C9
\* C9: while and after a legacy manifest is parsed the computed-ID table
\* and the record map have the same keys; once the finder is bound every
\* record's fileID is the digest of its own domain + '-' + filename, and
\* none is '<nofileID>'.
C9_IdsMatch ==
    /\ pc = "parse" => DictKeys(mbdb) = DOMAIN mbdx
    /\ (pc = "bound" /\ IsOld) =>
          /\ DictKeys(mbdb) = DOMAIN mbdx
          /\ \A i \in 1 .. Len(mbdb) :
                /\ mbdb[i][2].fileID # NoFileID
                /\ mbdb[i][2].fileID =
                       sha1_hexdigest(Utf8Encode(mbdb[i][2].domain \o <<Dash>>
                                                     \o mbdb[i][2].filename))

\* A legacy manifest of two records was parsed and annotated.
C9_Witness ==
    /\ pc = "bound"
    /\ IsOld
    /\ Len(mbdb) = 2
    /\ mbdb[1][2].domain # mbdb[2][2].domain
    /\ mbdb[2][2].fileID = mbdx[mbdb[2][1]]

\* ------------------------------------------------------------------ C10
OffsetsOrdered ==
    /\ \A i \in 1 .. Len(mbdb) : mbdb[i][2].start_offset = mbdb[i][1]
    /\ \A i \in 1 .. Len(mbdb) : \A j \in 1 .. Len(mbdb) : i < j => mbdb[i][1] < mbdb[j][1]
    /\ Len(mbdb) > 0 => mbdb[1][1] = 6

\* An iteration of the parse loop completed.
IterationDone == pc = "parse" /\ pc' = "parse" /\ <<offset, mbdb, mbdx>>' # <<offset, mbdb, mbdx>>

\* C10: every completed iteration of the parse loop moves the offset
\* forward, by at least the 40 bytes of the fixed-width fields, and adds
\* exactly one record, keyed by the offset the iteration started at; the
\* start_offsets are strictly increasing and the first is 6.
C10_OffsetsIncrease ==
    /\ []OffsetsOrdered
    /\ [][IterationDone =>
            /\ offset' >= offset + 40
            /\ Len(mbdb') = Len(mbdb) + 1
            /\ mbdb'[Len(mbdb')][1] = offset
            /\ SubSeq(mbdb', 1, Len(mbdb)) = mbdb]_vars

\* Two records were decoded, the first at offset 6.
C10_Witness ==
    /\ pc = "parse"
    /\ Len(mbdb) = 2
    /\ mbdb[1][1] = 6
    /\ mbdb[2][1] > 6
    /\ offset > mbdb[2][1]

\* ------------------------------------------------------------------- C3
BackupCall == pc = "bound" /\ IsBackup(deligate) /\ ret.op = "filename"

\* C3: filename(f) on a LegacyBackup or ModernBackup finder never raises,
\* for every text f, the empty text included: it returns a path or None.
C3_LookupNeverThrows == BackupCall => ret.exc = ""

\* ------------------------------------------------------------------- C5
\* C5: a legacy manifest in which a field's declared extent reaches past
\* the end of the buffer never yields a bound finder: whenever the
\* LegacyBackup finder is bound, the last record decoded, and with it every
\* field of every record, ends within the buffer.
C5_TruncationFatal ==
    (pc = "bound" /\ deligate.cls = "OldIPhoneBackupFilenameFinder" /\ Len(mbdb) > 0) =>
        offset <= Len(data)
====
